---- MODULE Spec2Model ----
(***************************************************************************)
(* ThrottleControl (src/ThrottleCrontol.hxx): a ring of tps atomic         *)
(* timestamps and an atomic index, shared by several threads.              *)
(*                                                                         *)
(* Time is counted in clock units of half a window: duration_ is the       *)
(* window of one second, written as 2 units.  Every access to an atomic    *)
(* is one step of the calling thread; the clock may advance between any    *)
(* two steps.  Atomic loads and compare-exchanges are interleaved          *)
(* sequentially consistently; a weak compare-exchange may fail             *)
(* spuriously.  Two properties of the build are fixed at start:            *)
(*   ndebug    assert() is compiled out (NDEBUG)                           *)
(*   hardened  the library checks the memory order handed to               *)
(*             atomic::load; index_.load(memory_order_acq_rel) then        *)
(*             terminates the process                                      *)
(***************************************************************************)
EXTENDS Integers, Sequences, FiniteSets, TLC

MaxTps == 2
MaxThreads == 2
MaxClock == 8
MaxLead == 3
MaxCalls == 3
MaxSoloCalls == 4

duration_ == 2

Threads == 1..MaxThreads
Ops == {"check_", "update_", "check", "update", "check_and_wait"}
UpdateOps == {"update_", "update"}

VARIABLES
    status,         \* "unconstructed", "constructed", "invalid_argument", "aborted"
    tps,            \* the constructor's argument
    ndebug,         \* build: assert() compiled out
    hardened,       \* build: atomic::load checks its memory order
    nthreads,       \* number of threads the program runs
    buffer_size_,
    timestamps_,    \* 0..buffer_size_-1 -> timestamp
    index_,
    clock,          \* high_resolution_clock::now()
    pc,             \* per thread: position in the running call
    op,             \* per thread: the public function called
    now,            \* per thread: local of check_ / update_
    attempt,        \* per thread: local of update_
    current_index,  \* per thread: local of check_ / update_
    expected,       \* per thread: local of check_ / update_
    wake,           \* per thread: end of the sleep_for of check_and_wait
    advanced,       \* per thread: this update_ call's index_ exchange succeeded
    ncalls,         \* number of check_ / update_ invocations so far
    last,           \* the return the latest step made, NoReturn if it made none
    admits,         \* instants, within the trailing window, at which update_ returned 0
    solo_log,       \* the update_ returns so far when the program has one thread
    quiet,          \* per thread: no update_ has run since this thread's call began
    calm,           \* what check_ and check_and_wait returned since an update_ last began
    protocol,       \* every call so far was check_, or update_ right after a check_ of 0
    owes,           \* per thread: its check_ returned 0 and its update_ is yet to come
    peeks0          \* instants, within the trailing window, at which such a check_ returned 0

vars == <<status, tps, ndebug, hardened, nthreads, buffer_size_, timestamps_, index_,
          clock, pc, op, now, attempt, current_index, expected, wake, advanced, ncalls,
          last, admits, solo_log, quiet, calm, protocol, owes, peeks0>>

object == <<buffer_size_, timestamps_, index_>>
build == <<tps, ndebug, hardened, nthreads>>
locals == <<op, now, attempt, current_index, expected, wake, advanced>>
history == <<admits, solo_log>>
monitors == <<quiet, calm, protocol, owes, peeks0>>

NoReturn ==
    [t |-> 0, call |-> "none", via |-> "none", now |-> 0, expected |-> 0, ret |-> 0,
     advanced |-> FALSE, why |-> "none", done |-> FALSE]

Init ==
    /\ status = "unconstructed"
    /\ tps \in 0..MaxTps
    /\ ndebug \in BOOLEAN
    /\ hardened \in BOOLEAN
    /\ nthreads \in 1..MaxThreads
    /\ buffer_size_ = 0
    /\ timestamps_ = <<>>
    /\ index_ = 0
    /\ clock = 0
    /\ pc = [t \in Threads |-> "idle"]
    /\ op = [t \in Threads |-> "none"]
    /\ now = [t \in Threads |-> 0]
    /\ attempt = [t \in Threads |-> 0]
    /\ current_index = [t \in Threads |-> 0]
    /\ expected = [t \in Threads |-> 0]
    /\ wake = [t \in Threads |-> 0]
    /\ advanced = [t \in Threads |-> FALSE]
    /\ ncalls = 0
    /\ last = NoReturn
    /\ admits = <<>>
    /\ solo_log = <<>>
    /\ quiet = [t \in Threads |-> FALSE]
    /\ calm = {}
    /\ protocol = TRUE
    /\ owes = [t \in Threads |-> FALSE]
    /\ peeks0 = <<>>

InWindow(a, c) == a > c - duration_

\* The newest timestamp of the ring.
Latest ==
    IF status = "constructed"
    THEN CHOOSE m \in 0..MaxClock : /\ \A i \in DOMAIN timestamps_ : timestamps_[i] <= m
                                   /\ \E i \in DOMAIN timestamps_ : timestamps_[i] = m
    ELSE 0

\* The clock advances; it runs at most MaxLead ahead of the newest timestamp.
Tick ==
    /\ clock < MaxClock
    /\ clock - Latest < MaxLead
    /\ clock' = clock + 1
    /\ admits' = SelectSeq(admits, LAMBDA a : InWindow(a, clock + 1))
    /\ last' = NoReturn
    /\ peeks0' = SelectSeq(peeks0, LAMBDA a : InWindow(a, clock + 1))
    /\ UNCHANGED <<status, build, object, pc, locals, ncalls, solo_log, quiet, calm,
                   protocol, owes>>

Construct_NoCheck ==
    /\ status = "unconstructed"
    /\ status' = "constructed"
    /\ buffer_size_' = tps
    /\ timestamps_' = [i \in 0..(tps - 1) |-> 0]
    /\ index_' = 0
    /\ last' = NoReturn
    /\ UNCHANGED <<build, clock, pc, locals, ncalls, history, monitors>>

\* ThrottleControl(tps)
Construct ==
    /\ status = "unconstructed"
    /\ IF tps = 0
       THEN /\ status' = "invalid_argument"
            /\ UNCHANGED object
       ELSE /\ status' = "constructed"
            /\ buffer_size_' = tps
            /\ timestamps_' = [i \in 0..(tps - 1) |-> 0]
            /\ index_' = 0
    /\ last' = NoReturn
    /\ UNCHANGED <<build, clock, pc, locals, ncalls, history, monitors>>

Remaining_Negated(n, e) == (n - e) - duration_

\* duration_ - (now - expected)
Remaining(n, e) == duration_ - (n - e)

\* now - expected > duration_
\* An eligibility test that also passes at exactly one window.
Eligible_Inclusive(n, e) == n - e >= duration_

Eligible(n, e) == n - e > duration_

\* the value check_ returns
\* A check_ that hands back the time elapsed instead of the time remaining.
CheckResult_Elapsed(n, e) == IF Eligible(n, e) THEN 0 ELSE n - e

CheckResult(n, e) == IF Eligible(n, e) THEN 0 ELSE Remaining(n, e)

UpdatePcs == {"u_load_index", "u_load_ts", "u_cas_index", "u_cas_ts"}

\* Some thread is inside update_.
UpdateRunning == \E u \in Threads : pc[u] \in UpdatePcs

CallBudget == IF nthreads = 1 THEN MaxSoloCalls ELSE MaxCalls

\* A thread calls a public function; check_ and update_ start by reading the clock.
Call(t, o) ==
    /\ status = "constructed"
    /\ t <= nthreads
    /\ pc[t] = "idle"
    /\ ncalls < CallBudget
    /\ ncalls' = ncalls + 1
    /\ op' = [op EXCEPT ![t] = o]
    /\ now' = [now EXCEPT ![t] = clock]
    /\ pc' = [pc EXCEPT ![t] = IF o \in UpdateOps THEN "u_load_index" ELSE "c_load_index"]
    /\ last' = NoReturn
    /\ IF o \in UpdateOps
       THEN /\ quiet' = [u \in Threads |-> FALSE]
            /\ calm' = {}
       ELSE /\ quiet' = [quiet EXCEPT ![t] = ~UpdateRunning]
            /\ calm' = calm
    /\ LET follows == protocol /\ o = (IF owes[t] THEN "update_" ELSE "check_")
       IN  /\ protocol' = follows
           /\ owes' = IF follows THEN [owes EXCEPT ![t] = FALSE] ELSE [u \in Threads |-> FALSE]
           /\ peeks0' = IF follows THEN peeks0 ELSE <<>>
    /\ UNCHANGED <<status, build, object, clock, attempt, current_index, expected, wake,
                   advanced, history>>

\* The locals of a call that has ended are dead.
ForgetCall(t) ==
    /\ now' = [now EXCEPT ![t] = 0]
    /\ attempt' = [attempt EXCEPT ![t] = 0]
    /\ current_index' = [current_index EXCEPT ![t] = 0]
    /\ expected' = [expected EXCEPT ![t] = 0]
    /\ advanced' = [advanced EXCEPT ![t] = FALSE]

\* index_.load(std::memory_order_acq_rel) is not a memory order of a load: a
\* library that checks it ends the process.
LoadAborts ==
    /\ status' = "aborted"
    /\ last' = NoReturn
    /\ UNCHANGED <<build, object, clock, pc, locals, ncalls, history, monitors>>

\* check_: int current_index = index_.load(...) % buffer_size_
CheckLoadIndex(t) ==
    /\ status = "constructed"
    /\ pc[t] = "c_load_index"
    /\ IF hardened
       THEN LoadAborts
       ELSE /\ current_index' = [current_index EXCEPT ![t] = index_ % buffer_size_]
            /\ pc' = [pc EXCEPT ![t] = "c_load_ts"]
            /\ last' = NoReturn
            /\ UNCHANGED <<status, build, object, clock, op, now, attempt, expected, wake,
                           advanced, ncalls, history, monitors>>

\* check_ returns r, having read e: check() and check_and_wait() return as well, or
\* check_and_wait() calls sleep_for(r).
CheckReturns(t, e, r) ==
    LET sleeps == op[t] = "check_and_wait" /\ r > 0
    IN  /\ last' = [t |-> t, call |-> "check_", via |-> op[t], now |-> now[t],
                    expected |-> e, ret |-> r, advanced |-> FALSE, why |-> "read",
                    done |-> ~sleeps]
        /\ pc' = [pc EXCEPT ![t] = IF sleeps THEN "sleep" ELSE "idle"]
        /\ wake' = [wake EXCEPT ![t] = IF sleeps THEN clock + r ELSE 0]
        /\ op' = [op EXCEPT ![t] = IF sleeps THEN @ ELSE "none"]
        /\ ForgetCall(t)
        /\ quiet' = [quiet EXCEPT ![t] = sleeps /\ @]
        /\ calm' = IF quiet[t]
                   THEN calm \cup {[kind |-> "peek", now |-> now[t], ret |-> r]}
                          \cup (IF op[t] = "check_and_wait" /\ ~sleeps
                                THEN {[kind |-> "wait", now |-> clock, ret |-> 0]}
                                ELSE {})
                   ELSE calm
        /\ protocol' = protocol
        /\ owes' = [owes EXCEPT ![t] = protocol /\ r = 0]
        /\ peeks0' = IF protocol /\ r = 0 THEN Append(peeks0, clock) ELSE peeks0

CheckLoadTimestamp_Fused(t) ==
    /\ status = "constructed"
    /\ pc[t] = "c_load_ts"
    /\ LET e == timestamps_[current_index[t]]
       IN  /\ CheckReturns(t, e, CheckResult(now[t], e))
           /\ IF Eligible(now[t], e)
              THEN /\ index_' = (current_index[t] + 1) % buffer_size_
                   /\ timestamps_' = [timestamps_ EXCEPT ![current_index[t]] = now[t]]
              ELSE UNCHANGED <<index_, timestamps_>>
    /\ UNCHANGED <<status, build, buffer_size_, clock, ncalls, history>>

\* check_: expected = timestamps_[current_index].load();
\*         return now - expected > duration_ ? 0 : duration_ - (now - expected)
CheckLoadTimestamp(t) ==
    /\ status = "constructed"
    /\ pc[t] = "c_load_ts"
    /\ LET e == timestamps_[current_index[t]]
       IN  CheckReturns(t, e, CheckResult(now[t], e))
    /\ UNCHANGED <<status, build, object, clock, ncalls, history>>

\* A sleep that may end before the requested duration has passed.
Wake_Early(t) ==
    /\ status = "constructed"
    /\ pc[t] = "sleep"
    /\ pc' = [pc EXCEPT ![t] = "idle"]
    /\ last' = [t |-> t, call |-> "check_and_wait", via |-> op[t], now |-> 0,
                expected |-> 0, ret |-> 0, advanced |-> FALSE, why |-> "slept",
                done |-> TRUE]
    /\ op' = [op EXCEPT ![t] = "none"]
    /\ wake' = [wake EXCEPT ![t] = 0]
    /\ quiet' = [quiet EXCEPT ![t] = FALSE]
    /\ calm' = IF quiet[t]
               THEN calm \cup {[kind |-> "wait", now |-> clock, ret |-> 0]}
               ELSE calm
    /\ UNCHANGED <<status, build, object, clock, now, attempt, current_index, expected,
                   advanced, ncalls, history, protocol, owes, peeks0>>

\* check_and_wait: std::this_thread::sleep_for(remain) is over.
Wake(t) ==
    /\ status = "constructed"
    /\ pc[t] = "sleep"
    /\ clock >= wake[t]
    /\ pc' = [pc EXCEPT ![t] = "idle"]
    /\ last' = [t |-> t, call |-> "check_and_wait", via |-> op[t], now |-> 0,
                expected |-> 0, ret |-> 0, advanced |-> FALSE, why |-> "slept",
                done |-> TRUE]
    /\ op' = [op EXCEPT ![t] = "none"]
    /\ wake' = [wake EXCEPT ![t] = 0]
    /\ quiet' = [quiet EXCEPT ![t] = FALSE]
    /\ calm' = IF quiet[t]
               THEN calm \cup {[kind |-> "wait", now |-> clock, ret |-> 0]}
               ELSE calm
    /\ UNCHANGED <<status, build, object, clock, now, attempt, current_index, expected,
                   advanced, ncalls, history, protocol, owes, peeks0>>

\* update_ returns r, having read e; update() returns as well unless r > 0.
UpdateReturns(t, e, r, why) ==
    LET again == op[t] = "update" /\ r > 0
    IN  /\ last' = [t |-> t, call |-> "update_", via |-> op[t], now |-> now[t],
                    expected |-> e, ret |-> r, advanced |-> advanced[t], why |-> why,
                    done |-> ~again]
        /\ admits' = IF r = 0 THEN Append(admits, clock) ELSE admits
        /\ solo_log' = IF nthreads = 1
                       THEN Append(solo_log, [now |-> now[t], ret |-> r])
                       ELSE solo_log
        /\ pc' = [pc EXCEPT ![t] = IF again THEN "yield" ELSE "idle"]
        /\ op' = [op EXCEPT ![t] = IF again THEN @ ELSE "none"]
        /\ ForgetCall(t)
        /\ wake' = wake
        /\ UNCHANGED monitors

\* update_: for (...; attempt < buffer_size_; ...)
\*              int current_index = index_.load(...) % buffer_size_
\*          return duration_
UpdateLoadIndex(t) ==
    /\ status = "constructed"
    /\ pc[t] = "u_load_index"
    /\ IF attempt[t] < buffer_size_
       THEN IF hardened
            THEN LoadAborts
            ELSE /\ current_index' = [current_index EXCEPT ![t] = index_ % buffer_size_]
                 /\ pc' = [pc EXCEPT ![t] = "u_load_ts"]
                 /\ last' = NoReturn
                 /\ UNCHANGED <<status, build, object, clock, op, now, attempt, expected,
                                wake, advanced, ncalls, history, monitors>>
       ELSE /\ UpdateReturns(t, expected[t], duration_, "exhausted")
            /\ UNCHANGED <<status, build, object, clock, ncalls>>

\* update_: expected = timestamps_[current_index].load();
\*          if (now - expected > duration_) ... else return duration_ - (now - expected)
UpdateLoadTimestamp(t) ==
    /\ status = "constructed"
    /\ pc[t] = "u_load_ts"
    /\ LET e == timestamps_[current_index[t]]
       IN  IF Eligible(now[t], e)
           THEN /\ expected' = [expected EXCEPT ![t] = e]
                /\ pc' = [pc EXCEPT ![t] = "u_cas_index"]
                /\ last' = NoReturn
                /\ UNCHANGED <<op, now, attempt, current_index, wake, advanced, history, monitors>>
           ELSE UpdateReturns(t, e, Remaining(now[t], e), "ineligible")
    /\ UNCHANGED <<status, build, object, clock, ncalls>>

\* update_: next_index = (current_index + 1) % buffer_size_;
\*          index_.compare_exchange_weak(current_index, next_index, ...)
UpdateCasIndex(t) ==
    /\ status = "constructed"
    /\ pc[t] = "u_cas_index"
    /\ \E spurious \in BOOLEAN :
         IF index_ = current_index[t] /\ ~spurious
         THEN /\ index_' = (current_index[t] + 1) % buffer_size_
              /\ advanced' = [advanced EXCEPT ![t] = TRUE]
              /\ pc' = [pc EXCEPT ![t] = "u_cas_ts"]
              /\ UNCHANGED <<attempt, current_index, expected>>
         ELSE /\ attempt' = [attempt EXCEPT ![t] = @ + 1]
              /\ current_index' = [current_index EXCEPT ![t] = 0]
              /\ expected' = [expected EXCEPT ![t] = 0]
              /\ pc' = [pc EXCEPT ![t] = "u_load_index"]
              /\ UNCHANGED <<index_, advanced>>
    /\ last' = NoReturn
    /\ UNCHANGED <<status, build, buffer_size_, timestamps_, clock, op, now, wake, ncalls,
                   history, monitors>>

\* update_: timestamps_[current_index].compare_exchange_weak(expected, now, ...),
\*          then return 0, or assert(false && "Failed to update timestamp")
UpdateCasTimestamp(t) ==
    /\ status = "constructed"
    /\ pc[t] = "u_cas_ts"
    /\ \E spurious \in BOOLEAN :
         IF timestamps_[current_index[t]] = expected[t] /\ ~spurious
         THEN /\ timestamps_' = [timestamps_ EXCEPT ![current_index[t]] = now[t]]
              /\ UpdateReturns(t, expected[t], 0, "stored")
              /\ status' = status
         ELSE /\ IF ndebug
                 THEN /\ attempt' = [attempt EXCEPT ![t] = @ + 1]
                      /\ current_index' = [current_index EXCEPT ![t] = 0]
                      /\ expected' = [expected EXCEPT ![t] = 0]
                      /\ pc' = [pc EXCEPT ![t] = "u_load_index"]
                      /\ status' = status
                 ELSE /\ status' = "aborted"
                      /\ UNCHANGED <<attempt, current_index, expected, pc>>
              /\ last' = NoReturn
              /\ UNCHANGED <<timestamps_, op, now, wake, advanced, history, monitors>>
    /\ UNCHANGED <<build, buffer_size_, index_, clock, ncalls>>

\* update(): std::this_thread::yield(), then update_() again
Yield(t) ==
    /\ status = "constructed"
    /\ pc[t] = "yield"
    /\ ncalls < CallBudget
    /\ ncalls' = ncalls + 1
    /\ now' = [now EXCEPT ![t] = clock]
    /\ pc' = [pc EXCEPT ![t] = "u_load_index"]
    /\ last' = NoReturn
    /\ quiet' = [u \in Threads |-> FALSE]
    /\ calm' = {}
    /\ UNCHANGED <<status, build, object, clock, op, attempt, current_index, expected,
                   wake, advanced, history, protocol, owes, peeks0>>

Next ==
    \/ Tick
    \/ Construct
    \/ \E t \in Threads, o \in Ops : Call(t, o)
    \/ \E t \in Threads : CheckLoadIndex(t)
    \/ \E t \in Threads : CheckLoadTimestamp(t)
    \/ \E t \in Threads : Wake(t)
    \/ \E t \in Threads : UpdateLoadIndex(t)
    \/ \E t \in Threads : UpdateLoadTimestamp(t)
    \/ \E t \in Threads : UpdateCasIndex(t)
    \/ \E t \in Threads : UpdateCasTimestamp(t)
    \/ \E t \in Threads : Yield(t)

Spec == Init /\ [][Next]_vars

(***************************************************************************)
(* Properties                                                              *)
(***************************************************************************)

\* the sentinel the constructor stores: the slot has never been claimed
NeverClaimed(e) == e = 0

ReadPcs == {"c_load_index", "c_load_ts", "sleep"}
CasPcs == {"u_cas_index", "u_cas_ts"}

\* C1: at every instant at most buffer_size_ update_ calls have returned 0 at
\* instants inside the trailing window (clock - duration_, clock].
C1_RateLimit ==
    status = "constructed" => Len(admits) <= buffer_size_

\* C2: a thread whose index_ exchange succeeded finds the slot still holding the
\* timestamp it read as expected, and no two threads are past a successful index_
\* exchange for the same slot with the same expected value.
C2_SlotExclusive ==
    status = "constructed" =>
        /\ \A t \in Threads :
              pc[t] = "u_cas_ts" => timestamps_[current_index[t]] = expected[t]
        /\ \A t1, t2 \in Threads :
              (t1 # t2 /\ pc[t1] = "u_cas_ts" /\ pc[t2] = "u_cas_ts")
                  => ~(current_index[t1] = current_index[t2] /\ expected[t1] = expected[t2])

\* C3: an update_ call that returns 0 has advanced index_ and stored its now in the
\* slot it addressed.
C3_ZeroMeansClaimed ==
    (last.call = "update_" /\ last.ret = 0) => (last.advanced /\ last.why = "stored")

\* C4: with one caller on a fresh limiter, each of the first buffer_size_ update_
\* calls returns 0, and the next one returns a positive value when no more than
\* duration_ lies between the first admission and it.
C4_FirstCalls ==
    (nthreads = 1 /\ status = "constructed") =>
        /\ \A i \in 1..Len(solo_log) : i <= buffer_size_ => solo_log[i].ret = 0
        /\ (/\ Len(solo_log) > buffer_size_
            /\ solo_log[buffer_size_ + 1].now - solo_log[1].now <= duration_)
              => solo_log[buffer_size_ + 1].ret > 0

\* C5: with one caller, after buffer_size_ admissions in a row and a rejected call,
\* once the clock is more than duration_ past the last of those admissions the next
\* buffer_size_ update_ calls return 0, and the call after them, made no more than
\* duration_ after the first of them, returns a positive value.
C5_Turnover ==
    (nthreads = 1 /\ status = "constructed") =>
        \A k \in 1..Len(solo_log) :
            LET n == buffer_size_
                rejected == k + n
                first == k + n + 1
                after == k + 2 * n + 1
                L == Len(solo_log)
            IN  (/\ first <= L
                 /\ \A i \in k..(k + n - 1) : solo_log[i].ret = 0
                 /\ solo_log[rejected].ret > 0
                 /\ solo_log[first].now - solo_log[k + n - 1].now > duration_)
                  => /\ \A i \in first..(after - 1) : i <= L => solo_log[i].ret = 0
                     /\ (/\ after <= L
                         /\ solo_log[after].now - solo_log[first].now <= duration_)
                           => solo_log[after].ret > 0

\* C6: an update_ call that reads a never-claimed slot finds it eligible, whatever
\* the clock reading: no call is turned away by a slot still holding the sentinel.
C6_SentinelEligible ==
    (last.call = "update_" /\ last.why = "ineligible") => ~NeverClaimed(last.expected)

\* C7: check_, check and check_and_wait never change index_ or a timestamp, and a
\* step that changes one of them is a compare-exchange of update_.
C7_ReadOnly ==
    [][status = "constructed" =>
         /\ \A t \in Threads :
               ((pc[t] \in ReadPcs \/ pc'[t] \in ReadPcs) /\ pc'[t] # pc[t])
                   => (index_' = index_ /\ timestamps_' = timestamps_)
         /\ (index_' # index_ \/ timestamps_' # timestamps_)
               => \E t \in Threads : pc[t] \in CasPcs /\ pc'[t] # pc[t]]_vars

\* C7: a check_ has returned 0 on a ring that holds a timestamp.
C7_Witness ==
    /\ last.call = "check_"
    /\ last.ret = 0
    /\ \E i \in DOMAIN timestamps_ : ~NeverClaimed(timestamps_[i])

\* C8: update() returns only after an update_ of that call has stored its timestamp.
C8_NoSpuriousReturn ==
    (last.via = "update" /\ last.done) => last.why = "stored"

\* C9: construction with tps = 0 fails with invalid_argument and leaves no object to
\* call; construction with tps >= 1 yields index_ 0 and tps slots holding the sentinel.
C9_Construction ==
    [][/\ (status = "unconstructed" /\ status' # status) =>
             IF tps = 0
             THEN /\ status' = "invalid_argument"
                  /\ UNCHANGED object
             ELSE /\ status' = "constructed"
                  /\ buffer_size_' = tps
                  /\ index_' = 0
                  /\ DOMAIN timestamps_' = 0..(tps - 1)
                  /\ \A i \in 0..(tps - 1) : NeverClaimed(timestamps_'[i])
       /\ status = "invalid_argument" =>
             /\ status' = "invalid_argument"
             /\ UNCHANGED <<object, pc, ncalls>>]_vars

\* C9: construction with tps = 0 has failed.
C9_Witness ==
    status = "invalid_argument" /\ tps = 0

\* C10: check_ and update_ never return a negative value.
C10_NeverNegative ==
    last.call \in {"check_", "update_"} => last.ret >= 0

\* C10: update_ has returned after reading a timestamp later than its own now.
C10_Witness ==
    /\ last.call = "update_"
    /\ last.why = "ineligible"
    /\ last.expected > last.now


\* C11: while no update_ runs, check_ calls at non-decreasing clock readings
\* return non-increasing waits.
C11_PeekMonotone ==
    \A p, q \in calm :
        (p.kind = "peek" /\ q.kind = "peek" /\ p.now <= q.now) => q.ret <= p.ret

\* Two undisturbed check_ calls, the later one returning a smaller positive wait.
C11_Witness ==
    \E p, q \in calm :
        /\ p.kind = "peek" /\ q.kind = "peek"
        /\ p.now < q.now
        /\ 0 < q.ret /\ q.ret < p.ret

\* C12: every update_ call ends after at most buffer_size_ attempts with one
\* result, zero or positive, and no call aborts (stated for the builds whose
\* atomic load accepts the memory order it is given).
C12_EveryCallCompletes ==
    ~hardened =>
        /\ status # "aborted"
        /\ \A t \in Threads : attempt[t] <= buffer_size_
        /\ (last.call = "update_" => last.ret >= 0)

\* C13: when every thread calls check_ and calls update_ only after a check_ that
\* returned 0, at most buffer_size_ check_ calls return 0 within one window.
C13_PeeksWithinCapacity ==
    (status = "constructed" /\ protocol) => Len(peeks0) <= buffer_size_

\* C14: a check_ whose clock reading is at or after the return of an undisturbed
\* check_and_wait returns 0, and check_and_wait only reads, sleeping for exactly
\* the duration its one check_ returned.
C14_AfterWait ==
    /\ \A w, p \in calm :
           (w.kind = "wait" /\ p.kind = "peek" /\ p.now >= w.now) => p.ret = 0
    /\ \A t \in Threads : op[t] = "check_and_wait" => pc[t] \in ReadPcs
    /\ (last.call = "check_" /\ last.via = "check_and_wait" /\ ~last.done) =>
           /\ pc[last.t] = "sleep"
           /\ wake[last.t] = clock + last.ret

\* A check_and_wait that slept and returned undisturbed, followed by a check_
\* that read the clock afterwards.
C14_Witness ==
    /\ last.call = "check_" /\ last.via = "check_" /\ last.done
    /\ \E w, p \in calm :
           /\ w.kind = "wait" /\ p.kind = "peek" /\ p.now = last.now /\ p.now >= w.now
           /\ \E q \in calm : q.kind = "peek" /\ q.ret > 0 /\ q.now < w.now

\* C15: an update_ that returns a positive value has advanced nothing, and it
\* returns duration_ - (now - expected) as soon as it finds its slot ineligible.
C15_RejectionWritesNothing ==
    (last.call = "update_" /\ last.ret > 0) =>
        /\ ~last.advanced
        /\ (last.why = "ineligible" => last.ret = Remaining(last.now, last.expected))

\* C16: with no other call in progress, check_ returns 0 exactly when
\* now - expected > duration_, and otherwise the strictly positive
\* duration_ - (now - expected).
C16_PeekAgrees ==
    (nthreads = 1 /\ last.call = "check_") =>
        /\ (last.ret = 0 <=> Eligible(last.now, last.expected))
        /\ (~Eligible(last.now, last.expected) =>
               last.ret = Remaining(last.now, last.expected) /\ last.ret > 0)

\* C17: whenever no call is in progress, the slot the cursor addresses holds the
\* smallest timestamp of the ring.
C17_CursorSlotOldest ==
    (status = "constructed" /\ \A t \in Threads : pc[t] = "idle") =>
        \A i \in 0..(buffer_size_ - 1) :
            timestamps_[index_ % buffer_size_] <= timestamps_[i]

\* C18: every successful exchange of the cursor changes it from c to c + 1.
C18_CursorCounts ==
    [][\A t \in Threads :
          (pc[t] = "u_cas_index" /\ pc'[t] = "u_cas_ts") => index_' = index_ + 1]_vars

\* C19: a caller running alone never gets the fallback duration_ from update_.
C19_NoFallbackAlone ==
    (nthreads = 1 /\ last.call = "update_") => last.why # "exhausted"

\* C20: the program never reaches a state in which an update() is pending and
\* no caller can ever be admitted again (stated for the builds whose atomic load
\* accepts the memory order it is given).
C20_NeverStuck ==
    ~hardened => ~(status = "aborted" /\ \E t \in Threads : op[t] = "update")


\* C21: every successful write to a slot replaces its timestamp by one that is
\* larger by more than duration_, so a slot's timestamp never decreases.
C21_SlotsMoveForward ==
    [][status = "constructed" =>
          /\ \A i \in 0..(buffer_size_ - 1) :
                 \/ timestamps_'[i] = timestamps_[i]
                 \/ timestamps_'[i] > timestamps_[i] + duration_
          /\ \A t \in Threads :
                 (pc[t] = "u_cas_ts" /\ last'.t = t /\ last'.why = "stored") =>
                     /\ timestamps_'[current_index[t]] = now[t]
                     /\ now[t] > timestamps_[current_index[t]] + duration_]_vars

\* A slot stamped by an earlier admission has just been stamped again.
C21_Witness ==
    /\ last.call = "update_" /\ last.why = "stored"
    /\ ~NeverClaimed(last.expected)
    /\ \E i \in 0..(buffer_size_ - 1) : timestamps_[i] = last.now

====
